---- MODULE Spec2Model ----
(***************************************************************************)
(* Model of the oil-spill drift simulator in public/js/simulation.js:      *)
(* the OilSpillSimulation driver (initialize / start / pause / reset /     *)
(* _tick), its integration step (_step) and its statistics (_updateStats), *)
(* together with the browser facilities the driver runs on                 *)
(* (requestAnimationFrame, cancelAnimationFrame, performance.now).         *)
(*                                                                         *)
(* Units.  Times are seconds, as in the source.  Positions are offsets     *)
(* from the spill origin in units of 0.001 degree.  Fractions (evaporated, *)
(* dispersed) are parts per million, and a particle's mass is in parts per *)
(* million of the mass it was created with.  Math.random() and the         *)
(* Box-Muller draws are inputs: every action that consumes them draws the  *)
(* resulting offsets from a small set.  A particle carries the fields that *)
(* decide what the driver does next (position, flags, age, evaporated,     *)
(* dispersed, emulsionWater, viscosity, mass); thickness, which nothing    *)
(* reads back, is not carried.                                             *)
(***************************************************************************)
EXTENDS Integers, Sequences, FiniteSets, TLC

\* ------------------------------------------------------------------ bounds
MaxParticles == 2
MaxHours == 1
MaxSpeed == 2
MaxPending == 2
MaxCount == 2

\* --------------------------------------------------------- program constants
SecondsPerHour == 3600
\* spill origin (38.5 N, 119.0 E) in units of 0.001 degree
spillLat == 38500
spillLng == 119000
DefaultWindSpeed == 5
DefaultWaterTemp == 18

\* ------------------------------------------------------- configuration sets
\* time_step values in seconds: 1200 divides an hour, 2400 does not
TimeSteps == {1200, 2400}
OilKinds == {"crude", "fuel", "diesel", "gasoline"}
\* the oil kinds a configuration is drawn from: a catalogued one and one
\* that OIL_PROPERTIES does not hold
ConfigOilTypes == {"crude", "bunker"}
SpillModes == {"instant", "continuous"}

\* random offsets (0.001 degree): initial disk of radius 0.002, release disk
\* of radius 0.001, and the displacement of one step
InitOffsets == {<<0, 0>>, <<1, -1>>}
ReleaseOffsets == {<<0, 0>>, <<0, 1>>}
Displacements == {<<0, 0>>, <<1, 0>>}

\* ------------------------------------------------------------------ helpers
Min(a, b) == IF a <= b THEN a ELSE b

Max(a, b) == IF a >= b THEN a ELSE b

\* F applied to the value of x (x is evaluated once, however often F uses it)
Bind(x, F(_)) == CHOOSE r \in {F(v) : v \in {x}} : TRUE

RECURSIVE ISqrtIn(_, _, _)
\* largest r in lo..hi with r*r <= x (Math.sqrt, rounded down)
ISqrtIn(x, lo, hi) ==
  IF lo >= hi THEN lo
  ELSE Bind((lo + hi + 1) \div 2, LAMBDA mid :
         IF mid * mid <= x THEN ISqrtIn(x, mid, hi) ELSE ISqrtIn(x, lo, mid - 1))

ISqrt(x) == IF x <= 0 THEN 0 ELSE ISqrtIn(x, 0, Min(x, 46340))

RECURSIVE SumFrom(_, _)
\* Array.prototype.reduce((s, x) => s + x, 0) over the numbers xs[i..]
SumFrom(xs, i) == IF i > Len(xs) THEN 0 ELSE xs[i] + SumFrom(xs, i + 1)

\* the latitude / longitude offsets from the spill origin of a particle array
LatOffsets(ps) == [i \in 1..Len(ps) |-> ps[i].lat - spillLat]

LngOffsets(ps) == [i \in 1..Len(ps) |-> ps[i].lng - spillLng]

Squares(xs) == [i \in 1..Len(xs) |-> xs[i] * xs[i]]

\* ------------------------------------------------------ OIL_PROPERTIES table
\* evapRate and volatileFrac in ppm, dispersibility and viscosity (cSt) in
\* tenths
OIL_PROPERTIES ==
  [crude    |-> [evapRate |-> 42000,  volatileFrac |-> 250000, dispersibility |-> 5,
                 viscosity |-> 120],
   fuel     |-> [evapRate |-> 15000,  volatileFrac |-> 80000,  dispersibility |-> 2,
                 viscosity |-> 1800],
   diesel   |-> [evapRate |-> 65000,  volatileFrac |-> 450000, dispersibility |-> 7,
                 viscosity |-> 40],
   gasoline |-> [evapRate |-> 120000, volatileFrac |-> 800000, dispersibility |-> 9,
                 viscosity |-> 6]]

\* get oilProps(): OIL_PROPERTIES[this.oilType], undefined for an unknown kind
HasOilProps(kind) == kind \in DOMAIN OIL_PROPERTIES

oilProps(kind) == OIL_PROPERTIES[kind]

\* ---------------------------------------------------------------- weathering
\* Math.sin(x) for x in thousandths of a radian, result in thousandths
\* (Taylor series to x^7, exact to the unit for |x| <= 2)
SinMilli(x) ==
  LET x2 == (x * x) \div 1000
      x3 == (x2 * x) \div 1000
      x5 == (x3 * x2) \div 1000
      x7 == (x5 * x2) \div 1000
  IN x - (x3 \div 6) + (x5 \div 120) - (x7 \div 5040)

\* Math.sin(x) for x in millionths of a radian of any size, result in
\* thousandths: x is reduced to one turn and folded onto [-PI/2, PI/2]
Sin(x) ==
  Bind(x % 6283185, LAMBDA r :
    SinMilli((IF r <= 1570796 THEN r
              ELSE IF r <= 4712389 THEN 3141593 - r
              ELSE r - 6283185) \div 1000))

\* Math.cos(x), likewise
Cos(x) == Sin(x + 1570796)

\* Math.sqrt(hours) in thousandths, hours = t / 3600
SqrtHoursMilli(t) == ISqrt((t * 2500) \div 9)

\* ws = windSpeed * (1 + Math.sin(time * 0.0002) * 0.1), in hundredths of m/s
ScalarWindCenti(speed, t) ==
  (speed * (10000 + Sin(t * 200))) \div 100

\* _calcEvaporation(props, hours, temp, windSpeed), result in ppm
calcEvaporation(props, t, temp, wsCenti) ==
  IF t <= 0 THEN 0
  ELSE LET K == (props.evapRate * (1000 + 45 * (temp - 15))) \div 1000
           s == SqrtHoursMilli(t)
           \* K * Math.sqrt(hours)
           base == K * (s \div 1000) + (K * (s % 1000)) \div 1000
           evapFrac == ((base \div 10) * (10000 + wsCenti)) \div 1000
       IN IF base >= 1000000 THEN props.volatileFrac
          ELSE Min(evapFrac, props.volatileFrac)

\* _calcDispersion(props, windSpeed, hours), result in ppm
calcDispersion(props, wsCenti, t) ==
  IF t <= 0 \/ wsCenti < 500 THEN 0
  ELSE LET \* Dba * waveEnergy = 0.0034 * dispersibility * ws^2 * 0.001 per hour
           \* = 34 * d10 * wsCenti^2 / 10^12 ; in ppm per hour: / 10^6
           ratePpmHourE3 == (34 * props.dispersibility * ((wsCenti * wsCenti) \div 100)) \div 10
           r == ratePpmHourE3 \div 10
           \* r * t / (SecondsPerHour * 100), rounded down
           frac == (r * (t \div SecondsPerHour)
                      + (r * (t % SecondsPerHour)) \div SecondsPerHour) \div 100
       IN Min(frac, 300000)

\* Math.exp(f) for 0 <= f < 1 in thousandths, result in thousandths
ExpFraction(f) ==
  LET f2 == (f * f) \div 1000
      f3 == (f2 * f) \div 1000
      f4 == (f3 * f) \div 1000
      f5 == (f4 * f) \div 1000
      f6 == (f5 * f) \div 1000
  IN 1000 + f + (f2 \div 2) + (f3 \div 6) + (f4 \div 24) + (f5 \div 120)
       + (f6 \div 720)

RECURSIVE ExpScale(_, _)
\* v * e^n for an integer n
ExpScale(v, n) ==
  IF n = 0 \/ v = 0 THEN v
  ELSE IF n > 0 THEN ExpScale((v * 2718) \div 1000, n - 1)
  ELSE ExpScale((v * 1000) \div 2718, n + 1)

\* Math.exp(x) for x in thousandths (x <= 5), result in thousandths
ExpMilli(x) ==
  IF x <= -20000 THEN 0 ELSE ExpScale(ExpFraction(x % 1000), x \div 1000)

\* variant: the water content saturates at 0.8
calcEmulsionSaturatingHigher(t, wsCenti) ==
  IF t <= 0 \/ wsCenti < 300 THEN 0
  ELSE LET q == ((wsCenti + 100) * (wsCenti + 100)) \div 10000
           x == IF q > 0 /\ t > 10000000 \div q THEN 20000 ELSE (q * t) \div 500
           Y == 800 * (1000 - ExpMilli(-x))
       IN Min(Y, 800000)

\* _calcEmulsion(hours, windSpeed), result in ppm
calcEmulsion(t, wsCenti) ==
  IF t <= 0 \/ wsCenti < 300 THEN 0
  ELSE LET \* (windSpeed + 1)^2
           q == ((wsCenti + 100) * (wsCenti + 100)) \div 10000
           \* Ka * hours * 3600 = 2e-6 * q * t, in thousandths
           x == IF q > 0 /\ t > 10000000 \div q THEN 20000 ELSE (q * t) \div 500
           Y == 700 * (1000 - ExpMilli(-x))
       IN Min(Y, 700000)

\* props.viscosity * Math.exp(5 * evaporated) / Math.pow(1 - emulsionWater, 2.5),
\* in tenths of a cSt
viscosityOf(props, evaporated, emulsionWater) ==
  LET u == (1000000 - emulsionWater) \div 1000
      pow25 == (((u * u) \div 1000) * ISqrt(u * 1000)) \div 1000
  IN (props.viscosity * ExpMilli((5 * evaporated) \div 1000)) \div pow25

\* ---------------------------------------------------------------- variables
VARIABLES
  \* configuration fields of the driver (set by the host before initialize)
  particleCount, timeStep, maxTime, playbackSpeed, spillMode, spillDuration,
  oilType, landMask, useGridData, windGrid, windSpeed, waterTemp,
  \* run state of the driver
  particles, time, isRunning, isPaused, particlesReleased, stats, trajectory,
  animFrameId,
  \* browser: the frame callbacks requested and not yet fired (oldest first;
  \* an entry is TRUE iff its id is the one held in _animFrameId), and
  \* whether performance.now() - _lastFrameTime has reached targetInterval
  \* (50 ms)
  rafQueue, intervalElapsed,
  \* observers: the onUpdate / onComplete calls since the last initialize or
  \* reset (counted up to MaxCount), the steps and onUpdate calls of the
  \* latest run of the tick body, the latest operation, and whether reset was
  \* called with no start or initialize after it
  updateCount, completeCount, tickSteps, tickUpdates, lastOp, sinceReset,
  \* host: the start / pause calls made so far, counted only where the host
  \* is taken to make finitely many of them (LiveSpec)
  userCalls,
  \* the pure functions of the engine taken alone (KernelSpec): the function
  \* applied last, its arguments and its result
  kernel, input, output

cfgVars == <<particleCount, timeStep, maxTime, playbackSpeed, spillMode,
             spillDuration, oilType, landMask, useGridData, windGrid,
             windSpeed, waterTemp>>

simVars == <<particles, time, isRunning, isPaused, particlesReleased, stats,
             trajectory, animFrameId, rafQueue, intervalElapsed>>

obsVars == <<updateCount, completeCount, tickSteps, tickUpdates, lastOp, sinceReset>>

fnVars == <<kernel, input, output>>

vars == <<cfgVars, simVars, obsVars, userCalls, fnVars>>

\* ------------------------------------------------------------------ landmask
\* The land mask slot: null (as constructed) or a mask whose domain is the
\* square of half-width DomainHalf around the spill origin, land from
\* CoastOffset north of the origin and water south of it.
DomainHalf == 4

CoastOffset == 2

LandMasks == {"null", "coast"}

\* the masks of the step-level runs: also a mask of the same domain that is
\* land everywhere
StepLandMasks == LandMasks \cup {"land"}

\* the wind grid slot: null or a loaded grid
WindGrids == {"null", "loaded"}

\* this.landMask && this.landMask.contains(lat, lng)
Contains(mask, lat, lng) ==
  /\ mask # "null"
  /\ lat >= spillLat - DomainHalf /\ lat <= spillLat + DomainHalf
  /\ lng >= spillLng - DomainHalf /\ lng <= spillLng + DomainHalf

\* landMask.sample('lsm', lat, lng) > 0.5
IsLand(mask, lat, lng) ==
  mask = "land" \/ (mask = "coast" /\ lat >= spillLat + CoastOffset)

\* ------------------------------------------------------------------ particle
\* new OilParticle(lat, lng, mass)
OilParticle(lat, lng) ==
  [lat |-> lat, lng |-> lng, mass |-> 1000000, active |-> TRUE,
   beached |-> FALSE, age |-> 0, evaporated |-> 0, dispersed |-> 0,
   emulsionWater |-> 0, viscosity |-> 0]

IsActive(p) == p.active

IsBeached(p) == p.beached

\* the stats literal of initialize and reset; remaining, evaporated and
\* dispersed are in units of 0.0001 percent, area in thousandths of a km2,
\* centerLat / centerLng in millionths of a degree, maxDrift in metres
FullRemaining == 1000000

\* the stats literal of the constructor: as InitialStats but centred on (0, 0)
ConstructorStats ==
  [area |-> 0, remaining |-> FullRemaining, evaporated |-> 0, dispersed |-> 0,
   centerLat |-> 0, centerLng |-> 0, maxDrift |-> 0, beached |-> 0]

InitialStats ==
  [area |-> 0, remaining |-> FullRemaining, evaporated |-> 0, dispersed |-> 0,
   centerLat |-> spillLat * 1000, centerLng |-> spillLng * 1000,
   maxDrift |-> 0, beached |-> 0]

\* the driver state as one record, so that a handler that calls another
\* (start -> initialize -> _tick) composes
Cur ==
  [particles |-> particles, time |-> time, isRunning |-> isRunning,
   isPaused |-> isPaused, particlesReleased |-> particlesReleased,
   stats |-> stats, trajectory |-> trajectory, animFrameId |-> animFrameId,
   rafQueue |-> rafQueue, intervalElapsed |-> intervalElapsed]

\* ---------------------------------------------------------------- initialize
\* initialize(): draw[i] is the random disk offset of particle i.  Returns
\* the new state and whether the call threw (props undefined at
\* p.viscosity = props.viscosity, after the fields were cleared).
initialize(S, draw) ==
  LET cleared == [S EXCEPT !.particles = <<>>, !.time = 0, !.trajectory = <<>>,
                           !.particlesReleased = 0, !.stats = InitialStats]
  IN IF particleCount > 0 /\ ~HasOilProps(oilType)
     THEN [S |-> cleared, threw |-> TRUE]
     ELSE IF spillMode = "continuous"
     THEN [S |-> [cleared EXCEPT
                    !.particles = [i \in 1..Max(particleCount, 0) |->
                        [OilParticle(spillLat, spillLng) EXCEPT
                           !.viscosity = oilProps(oilType).viscosity,
                           !.active = FALSE]]],
           threw |-> FALSE]
     ELSE [S |-> [cleared EXCEPT
                    !.particles = [i \in 1..Max(particleCount, 0) |->
                        [OilParticle(spillLat + draw[i][1], spillLng + draw[i][2])
                           EXCEPT !.viscosity = oilProps(oilType).viscosity]],
                    !.particlesReleased = particleCount],
           threw |-> FALSE]

InitDraws == [1..Max(particleCount, 0) -> InitOffsets]

\* --------------------------------------------------------------------- _step
RECURSIVE Pow2(_)
Pow2(n) == IF n <= 0 THEN 1 ELSE 2 * Pow2(n - 1)

RECURSIVE DoublingsUpTo(_, _)
\* the largest e >= 0 with y * 2^e <= x, for 0 < y <= x
DoublingsUpTo(x, y) == IF 2 * y <= x THEN 1 + DoublingsUpTo(x, 2 * y) ELSE 0

RECURSIVE DoublingsToReach(_, _)
\* the smallest j >= 0 with x * 2^j >= y, for x > 0
DoublingsToReach(x, y) == IF x < y THEN 1 + DoublingsToReach(2 * x, y) ELSE 0

\* the binary exponent of the quotient x / y: 2^E <= x / y < 2^(E + 1)
QuotientExponent(x, y) ==
  IF x >= y THEN DoublingsUpTo(x, y) ELSE 0 - DoublingsToReach(x, y)

RECURSIVE DoubleMod(_, _, _)
\* (r * 2^n) mod y
DoubleMod(r, y, n) ==
  IF n <= 0 \/ r = 0 THEN r ELSE DoubleMod((2 * r) % y, y, n - 1)

\* Math.floor(x / y * n) in IEEE double arithmetic, for integers x, y > 0 and
\* n >= 0 below 2^31.  The double x / y is the quotient rounded to 53 bits,
\* and its product with n is rounded to 53 bits again.  The two roundings
\* change the floor only when x * n / y is an integer k: the quotient is
\* then rounded down by (r / y) ulp, r being the remainder of the division
\* at the 53rd bit, when r < y / 2, and the product k - r * n * ulp / y is
\* rounded to the double below k, unless it is within half a spacing of k.
FloorOfQuotientTimes(x, y, n) ==
  IF (x * n) % y # 0 \/ n = 0 THEN (x * n) \div y
  ELSE Bind(<<(x * n) \div y, QuotientExponent(x, y)>>, LAMBDA kE :
         Bind(<<DoubleMod(x % y, y, 52 - kE[2]), DoublingsUpTo(kE[1], 1)>>,
              LAMBDA rL :
           LET k == kE[1]
               r == rL[1]
               \* the spacing of the doubles below k is 2^(c - 51) ulp of x / y
               c == IF k = Pow2(rL[2]) THEN rL[2] - kE[2] - 2
                    ELSE rL[2] - kE[2] - 1
           IN IF r = 0 \/ 2 * r > y THEN k
              ELSE IF r * n * Pow2(0 - c) <= y * Pow2(c) THEN k
              ELSE k - 1))

\* the continuous release of _step: the particles with index (0-based)
\* released .. target-1 are placed on the release disk and activated
\* variant: the release target computed from the time before the step
ReleaseTargetAtStepStart(S) ==
  LET spillDurSec == spillDuration * SecondsPerHour
  IN IF spillMode = "continuous" /\ S.particlesReleased < particleCount
        /\ S.time < spillDurSec
     THEN Max(S.particlesReleased,
              Min((S.time * particleCount) \div spillDurSec, particleCount))
     ELSE S.particlesReleased

\* variant: particles are released only by a step that ends before the end
\* of the spill
releasedAfterEndingInsideSpill(t, released, dt, duration, n) ==
  LET spillDurSec == duration * SecondsPerHour
  IN IF released < n /\ t + dt < spillDurSec
     THEN Max(released, Min(FloorOfQuotientTimes(t + dt, spillDurSec, n), n))
     ELSE released

\* _particlesReleased after the release block of a continuous run at time t:
\* targetReleased = min(floor((time + dt) / spillDurSec * particleCount),
\* particleCount), and nothing is released when that is not above released
releasedAfter(t, released, dt, duration, n) ==
  LET spillDurSec == duration * SecondsPerHour
  IN IF released < n /\ t < spillDurSec
     THEN Max(released, Min(FloorOfQuotientTimes(t + dt, spillDurSec, n), n))
     ELSE released

ReleaseTarget(S) ==
  IF spillMode = "continuous"
  THEN releasedAfter(S.time, S.particlesReleased, timeStep, spillDuration,
                     particleCount)
  ELSE S.particlesReleased

Release(S, rel) ==
  LET target == ReleaseTarget(S)
  IN [S EXCEPT
        !.particles = [i \in 1..Len(S.particles) |->
           IF i > S.particlesReleased /\ i <= target
           THEN [S.particles[i] EXCEPT !.lat = spillLat + rel[i][1],
                                       !.lng = spillLng + rel[i][2],
                                       !.active = TRUE, !.age = 0]
           ELSE S.particles[i]],
        !.particlesReleased = target]

\* variant: no grounding test after the displacement
AdvanceWithoutGrounding(p, evapFraction, dispersFraction, emulsionWater, props, d) ==
  LET aged == [p EXCEPT !.age = p.age + timeStep,
                        !.evaporated = Min(evapFraction, props.volatileFrac),
                        !.dispersed = Min(dispersFraction, 300000),
                        !.emulsionWater = emulsionWater,
                        !.viscosity = viscosityOf(props,
                                        Min(evapFraction, props.volatileFrac),
                                        emulsionWater)]
      remainFrac == 1000000 - aged.evaporated - aged.dispersed
      massed == [aged EXCEPT !.mass = remainFrac]
  IN IF remainFrac < 50000 THEN [aged EXCEPT !.active = FALSE]
     ELSE [massed EXCEPT !.lat = massed.lat + d[1], !.lng = massed.lng + d[2]]

\* variant: a grounded particle is left where the displacement took it
AdvanceGroundingWhereDisplaced(p, evapFraction, dispersFraction, emulsionWater, props, d) ==
  LET aged == [p EXCEPT !.age = p.age + timeStep,
                        !.evaporated = Min(evapFraction, props.volatileFrac),
                        !.dispersed = Min(dispersFraction, 300000),
                        !.emulsionWater = emulsionWater,
                        !.viscosity = viscosityOf(props,
                                        Min(evapFraction, props.volatileFrac),
                                        emulsionWater)]
      remainFrac == 1000000 - aged.evaporated - aged.dispersed
      massed == [aged EXCEPT !.mass = remainFrac]
      moved == [massed EXCEPT !.lat = massed.lat + d[1], !.lng = massed.lng + d[2]]
  IN IF remainFrac < 50000 THEN [aged EXCEPT !.active = FALSE]
     ELSE IF Contains(landMask, moved.lat, moved.lng)
             /\ IsLand(landMask, moved.lat, moved.lng)
     THEN [moved EXCEPT !.active = FALSE, !.beached = TRUE]
     ELSE moved

\* variant: a grounded particle is marked beached and left active
AdvanceBeachedStaysActive(p, evapFraction, dispersFraction, emulsionWater, props, d) ==
  LET aged == [p EXCEPT !.age = p.age + timeStep,
                        !.evaporated = Min(evapFraction, props.volatileFrac),
                        !.dispersed = Min(dispersFraction, 300000),
                        !.emulsionWater = emulsionWater,
                        !.viscosity = viscosityOf(props,
                                        Min(evapFraction, props.volatileFrac),
                                        emulsionWater)]
      remainFrac == 1000000 - aged.evaporated - aged.dispersed
      massed == [aged EXCEPT !.mass = remainFrac]
      moved == [massed EXCEPT !.lat = massed.lat + d[1], !.lng = massed.lng + d[2]]
  IN IF remainFrac < 50000 THEN [aged EXCEPT !.active = FALSE]
     ELSE IF Contains(landMask, moved.lat, moved.lng)
             /\ IsLand(landMask, moved.lat, moved.lng)
     THEN [massed EXCEPT !.beached = TRUE]
     ELSE moved

\* the body of the particle loop for one active particle; d is its random
\* plus advective displacement of this step
Advance(p, evapFraction, dispersFraction, emulsionWater, props, d) ==
  LET aged == [p EXCEPT !.age = p.age + timeStep,
                        !.evaporated = Min(evapFraction, props.volatileFrac),
                        !.dispersed = Min(dispersFraction, 300000),
                        !.emulsionWater = emulsionWater,
                        !.viscosity = viscosityOf(props,
                                        Min(evapFraction, props.volatileFrac),
                                        emulsionWater)]
      remainFrac == 1000000 - aged.evaporated - aged.dispersed
      massed == [aged EXCEPT !.mass = remainFrac]
      moved == [massed EXCEPT !.lat = massed.lat + d[1], !.lng = massed.lng + d[2]]
  IN IF remainFrac < 50000 THEN [aged EXCEPT !.active = FALSE]
     ELSE IF Contains(landMask, moved.lat, moved.lng)
             /\ IsLand(landMask, moved.lat, moved.lng)
     THEN [massed EXCEPT !.active = FALSE, !.beached = TRUE]
     ELSE moved

\* centroid of a non-empty sequence of particles, in millionths of a degree
CentroidLat(active) ==
  (SumFrom(LatOffsets(active), 1) * 1000) \div Len(active)
    + spillLat * 1000

CentroidLng(active) ==
  (SumFrom(LngOffsets(active), 1) * 1000) \div Len(active)
    + spillLng * 1000

\* variant: a sample at the end of every step that leaves a particle active
SampleEveryStep(S) ==
  Bind(SelectSeq(S.particles, IsActive), LAMBDA active :
    IF Len(active) > 0
    THEN [S EXCEPT !.trajectory = Append(S.trajectory,
             [time |-> S.time, lat |-> CentroidLat(active),
              lng |-> CentroidLng(active)])]
    ELSE S)

\* the hourly trajectory sample at the end of _step
Sample(S) ==
  Bind(SelectSeq(S.particles, IsActive), LAMBDA active :
    IF S.time % SecondsPerHour < timeStep /\ Len(active) > 0
    THEN [S EXCEPT !.trajectory = Append(S.trajectory,
             [time |-> S.time, lat |-> CentroidLat(active),
              lng |-> CentroidLng(active)])]
    ELSE S)

\* the first active particle, aged: where _step throws at props.volatileFrac
AgeFirstActive(ps) ==
  LET first == CHOOSE i \in 1..Len(ps) : ps[i].active /\ \A j \in 1..(i - 1) : ~ps[j].active
  IN [ps EXCEPT ![first].age = ps[first].age + timeStep]

\* get hasGridData(): a wind, current or temperature grid is loaded (the
\* current and temperature slots stay null here)
hasGridData == windGrid # "null"

\* variant: grid mode chosen by the switch alone
UseGridIgnoringSlots(flag) == flag

\* const useGrid = this.useGridData && this.hasGridData
UseGrid(flag) == flag /\ hasGridData

\* the representative wind speed of grid mode, 5.0 m/s, in hundredths
GridRepWindCenti == 500

\* repWs in hundredths of m/s: 5.0 in grid mode, else the scalar wind
RepWindCenti(useGrid, t) ==
  IF useGrid THEN GridRepWindCenti ELSE ScalarWindCenti(windSpeed, t)

\* the global weathering of _step at time t: [evap, disp, emul] in ppm
Weathering(useGrid, props, t) ==
  Bind(RepWindCenti(useGrid, t), LAMBDA wsCenti :
    [evap |-> calcEvaporation(props, t, waterTemp, wsCenti),
     disp |-> calcDispersion(props, wsCenti, t),
     emul |-> calcEmulsion(t, wsCenti)])

\* variant: every particle is weathered by its own age
AdvanceAllWeatheringByAge(useGrid, S, draw) ==
  [S EXCEPT
     !.particles = [i \in 1..Len(S.particles) |->
        IF S.particles[i].active
        THEN Bind(Weathering(useGrid, oilProps(oilType), S.particles[i].age),
                  LAMBDA w : Advance(S.particles[i], w.evap, w.disp, w.emul,
                                     oilProps(oilType), draw[i][2]))
        ELSE S.particles[i]],
     !.time = S.time + timeStep]

\* variant: the particle loop also runs its body for beached particles
AdvanceAllIncludingBeached(useGrid, S, draw) ==
  Bind(Weathering(useGrid, oilProps(oilType), S.time), LAMBDA w :
    [S EXCEPT
       !.particles = [i \in 1..Len(S.particles) |->
          IF S.particles[i].active \/ S.particles[i].beached
          THEN Advance(S.particles[i], w.evap, w.disp, w.emul, oilProps(oilType),
                       draw[i][2])
          ELSE S.particles[i]],
       !.time = S.time + timeStep])

\* the weathering and the particle loop of _step, then this.time += dt
AdvanceAll(useGrid, S, draw) ==
  Bind(Weathering(useGrid, oilProps(oilType), S.time), LAMBDA w :
    [S EXCEPT
       !.particles = [i \in 1..Len(S.particles) |->
          IF S.particles[i].active
          THEN Advance(S.particles[i], w.evap, w.disp, w.emul, oilProps(oilType),
                       draw[i][2])
          ELSE S.particles[i]],
       !.time = S.time + timeStep])

\* _step() once the release is done
StepReleased(useGrid, released, draw) ==
  IF ~HasOilProps(oilType) /\ released.time > 0
  THEN [S |-> released, threw |-> TRUE]
  ELSE IF ~HasOilProps(oilType)
  THEN IF \E i \in 1..Len(released.particles) : released.particles[i].active
       THEN [S |-> [released EXCEPT !.particles = AgeFirstActive(released.particles)],
             threw |-> TRUE]
       ELSE [S |-> Sample([released EXCEPT !.time = released.time + timeStep]),
             threw |-> FALSE]
  ELSE [S |-> Bind(AdvanceAll(useGrid, released, draw), Sample), threw |-> FALSE]

\* _step(): draw[i] = <<release offset, displacement>> drawn for particle i.
\* useGrid is the constant of the same name in _step.
\* Throws when props is undefined: at props.evapRate in _calcEvaporation
\* when hours > 0, else at props.volatileFrac for the first active particle.
stepUsing(useGrid, S, draw) ==
  Bind(Release(S, [i \in DOMAIN draw |-> draw[i][1]]),
       LAMBDA released : StepReleased(useGrid, released, draw))

step(S, draw) == stepUsing(UseGrid(useGridData), S, draw)

\* the sequences that take their i-th element from choices[i], from index i on
RECURSIVE DrawsFrom(_, _)
DrawsFrom(choices, i) ==
  IF i > Len(choices) THEN {<<>>}
  ELSE {<<c>> \o rest : c \in choices[i], rest \in DrawsFrom(choices, i + 1)}

\* the random draws of one _step call from S: a release offset for each
\* particle released in this step and a displacement for each particle the
\* loop then finds active (the others draw nothing)
StepDraws(S) ==
  Bind(ReleaseTarget(S), LAMBDA target :
    DrawsFrom([i \in 1..Len(S.particles) |->
       (IF i > S.particlesReleased /\ i <= target
        THEN ReleaseOffsets ELSE {<<0, 0>>})
       \X (IF S.particles[i].active
              \/ (i > S.particlesReleased /\ i <= target)
           THEN Displacements ELSE {<<0, 0>>})], 1))

\* every outcome of one _step call from S
StepOutcomes(S) == {step(S, draw) : draw \in StepDraws(S)}

\* -------------------------------------------------------------- _updateStats
\* n^2 times the population variance of the latitudes / longitudes
VarLatN2(active) ==
  Len(active) * SumFrom(Squares(LatOffsets(active)), 1)
    - SumFrom(LatOffsets(active), 1) * SumFrom(LatOffsets(active), 1)

VarLngN2(active) ==
  Len(active) * SumFrom(Squares(LngOffsets(active)), 1)
    - SumFrom(LngOffsets(active), 1) * SumFrom(LngOffsets(active), 1)

\* area = PI * latKm * lngKm * 4 with latKm = latStd * 111.32 and
\* lngKm = lngStd * 111.32 * cos(38.5 deg): 0.122 km2 per squared unit
AreaOf(active) ==
  (122 * ISqrt(VarLatN2(active) * VarLngN2(active))) \div (Len(active) * Len(active))

\* _haversineDistance(spillLat, spillLng, p.lat, p.lng) in metres: a unit
\* of latitude is 111 m and a unit of longitude 87 m at 38.5 N
haversineDistance(p) ==
  ISqrt((111 * (p.lat - spillLat)) * (111 * (p.lat - spillLat))
        + (87 * (p.lng - spillLng)) * (87 * (p.lng - spillLng)))

RECURSIVE MaxDriftOf(_, _)
MaxDriftOf(active, i) ==
  IF i > Len(active) THEN 0
  ELSE Max(haversineDistance(active[i]), MaxDriftOf(active, i + 1))

updateStats(S) ==
  Bind(SelectSeq(S.particles, IsActive), LAMBDA active :
    LET beachedCount == Len(SelectSeq(S.particles, IsBeached))
        rep == active[1]
    IN IF Len(active) = 0 /\ beachedCount = 0 THEN S
       ELSE IF Len(active) = 0 THEN [S EXCEPT !.stats.beached = beachedCount]
       ELSE [S EXCEPT !.stats =
               [area |-> AreaOf(active),
                remaining |-> 1000000 - rep.evaporated - rep.dispersed,
                evaporated |-> rep.evaporated,
                dispersed |-> rep.dispersed,
                centerLat |-> CentroidLat(active),
                centerLng |-> CentroidLng(active),
                maxDrift |-> MaxDriftOf(active, 1),
                beached |-> beachedCount]])

\* --------------------------------------------------------------------- _tick
\* requestAnimationFrame(() => this._tick()), its id stored in _animFrameId
requestAnimationFrame(S) ==
  [S EXCEPT !.rafQueue = Append([i \in 1..Len(S.rafQueue) |-> FALSE], TRUE),
            !.animFrameId = TRUE]

\* cancelAnimationFrame(this._animFrameId): drops the callback with that id
\* if it is still pending
cancelAnimationFrame(S) ==
  [S EXCEPT !.rafQueue = SelectSeq(S.rafQueue, LAMBDA latest : ~latest)]

RECURSIVE TickLoopStrictHorizon(_, _, _)
\* variant: the horizon test of the loop written time > maxTime
TickLoopStrictHorizon(S, s, n) ==
  IF s >= playbackSpeed
  THEN {[S |-> S, outcome |-> "done", steps |-> n]}
  ELSE IF S.time > maxTime
  THEN {[S |-> [S EXCEPT !.isRunning = FALSE], outcome |-> "complete", steps |-> n]}
  ELSE UNION {IF r.threw
              THEN {[S |-> r.S, outcome |-> "threw", steps |-> n]}
              ELSE TickLoopStrictHorizon(r.S, s + 1, n + 1) : r \in StepOutcomes(S)}

RECURSIVE TickLoop(_, _, _)
\* the for loop of _tick from iteration s with n steps done: the set of
\* its outcomes, "done" (loop ran out), "complete" (time >= maxTime: the
\* return inside the loop) or "threw" (_step threw)
TickLoop(S, s, n) ==
  IF s >= playbackSpeed
  THEN {[S |-> S, outcome |-> "done", steps |-> n]}
  ELSE IF S.time >= maxTime
  THEN {[S |-> [S EXCEPT !.isRunning = FALSE], outcome |-> "complete", steps |-> n]}
  ELSE UNION {IF r.threw
              THEN {[S |-> r.S, outcome |-> "threw", steps |-> n]}
              ELSE TickLoop(r.S, s + 1, n + 1) : r \in StepOutcomes(S)}

\* variant: the early return without the isPaused test
TickReturnsEarlyIgnoringPause(S) == ~S.isRunning

\* the early return of _tick
TickReturnsEarly(S) == ~S.isRunning \/ S.isPaused

\* variant: no next frame requested after the update
AfterLoopWithoutReschedule(l) ==
  IF l.outcome = "done"
  THEN [S |-> updateStats(l.S), steps |-> l.steps, updates |-> 1, completes |-> 0]
  ELSE IF l.outcome = "complete"
  THEN [S |-> l.S, steps |-> l.steps, updates |-> 0, completes |-> 1]
  ELSE [S |-> l.S, steps |-> l.steps, updates |-> 0, completes |-> 0]

\* what follows the loop of _tick
AfterLoop(l) ==
  IF l.outcome = "done"
  THEN [S |-> Bind(updateStats(l.S), requestAnimationFrame), steps |-> l.steps,
        updates |-> 1, completes |-> 0]
  ELSE IF l.outcome = "complete"
  THEN [S |-> l.S, steps |-> l.steps, updates |-> 0, completes |-> 1]
  ELSE [S |-> l.S, steps |-> l.steps, updates |-> 0, completes |-> 0]

\* _tick(): the set of its outcomes, each with the steps run and the
\* onUpdate / onComplete calls made
tick(S) ==
  IF TickReturnsEarly(S)
  THEN {[S |-> S, steps |-> 0, updates |-> 0, completes |-> 0]}
  ELSE IF ~S.intervalElapsed
  THEN {[S |-> requestAnimationFrame(S), steps |-> 0, updates |-> 0, completes |-> 0]}
  ELSE {AfterLoop(l) : l \in TickLoop([S EXCEPT !.intervalElapsed = FALSE], 0, 0)}

\* ------------------------------------------------------- start, pause, reset
\* start(): outcomes with whether initialize ran
start(S) ==
  LET inits == IF Len(S.particles) = 0
               THEN {initialize(S, draw) : draw \in InitDraws}
               ELSE {[S |-> S, threw |-> FALSE]}
  IN UNION {IF i.threw
            THEN {[S |-> i.S, steps |-> 0, updates |-> 0, completes |-> 0,
                   threw |-> TRUE]}
            ELSE {[S |-> t.S, steps |-> t.steps, updates |-> t.updates,
                   completes |-> t.completes, threw |-> FALSE] :
                  t \in tick([i.S EXCEPT !.isRunning = TRUE, !.isPaused = FALSE,
                                         !.intervalElapsed = FALSE])}
            : i \in inits}

\* pause()
pause(S) ==
  LET toggled == [S EXCEPT !.isPaused = ~S.isPaused]
  IN IF ~toggled.isPaused
     THEN tick([toggled EXCEPT !.intervalElapsed = FALSE])
     ELSE {[S |-> toggled, steps |-> 0, updates |-> 0, completes |-> 0]}

\* variant: reset that leaves isRunning as it is
resetKeepingRunning(S) ==
  LET stopped == [S EXCEPT !.isPaused = FALSE]
      cancelled == IF stopped.animFrameId THEN cancelAnimationFrame(stopped) ELSE stopped
  IN [cancelled EXCEPT !.particles = <<>>, !.time = 0, !.trajectory = <<>>,
                       !.particlesReleased = 0, !.stats = InitialStats]

\* variant: reset that leaves _particlesReleased and the stats as they are
resetKeepingCounts(S) ==
  LET stopped == [S EXCEPT !.isRunning = FALSE, !.isPaused = FALSE]
      cancelled == IF stopped.animFrameId THEN cancelAnimationFrame(stopped) ELSE stopped
  IN [cancelled EXCEPT !.particles = <<>>, !.time = 0, !.trajectory = <<>>]

\* reset()
reset(S) ==
  LET stopped == [S EXCEPT !.isRunning = FALSE, !.isPaused = FALSE]
      cancelled == IF stopped.animFrameId THEN cancelAnimationFrame(stopped) ELSE stopped
  IN [cancelled EXCEPT !.particles = <<>>, !.time = 0, !.trajectory = <<>>,
                       !.particlesReleased = 0, !.stats = InitialStats]

\* ---------------------------------------------------------------------- Init
DefaultSpillDuration == 12

\* the grid slots and the grid switch as the constructor leaves them: no
\* wind, current or temperature grid, useGridData = true
GridsAsConstructed == useGridData = TRUE /\ windGrid = "null"

\* the scalar wind speed (m/s) and water temperature (degrees C) as the
\* constructor leaves them
EnvironmentAsConstructed ==
  windSpeed = DefaultWindSpeed /\ waterTemp = DefaultWaterTemp

\* the configurations the host may set before a run
ConfigInit ==
  /\ particleCount \in 0..MaxParticles
  /\ timeStep \in TimeSteps
  /\ maxTime \in {h * SecondsPerHour : h \in 0..MaxHours}
  /\ playbackSpeed \in 1..MaxSpeed
  /\ spillMode \in SpillModes
  /\ spillDuration \in (IF spillMode = "continuous" THEN 1..MaxHours
                        ELSE {DefaultSpillDuration})
  /\ oilType \in ConfigOilTypes
  /\ landMask \in LandMasks
  /\ GridsAsConstructed
  /\ EnvironmentAsConstructed

\* the state the constructor leaves
ConstructorState ==
  /\ particles = <<>>
  /\ time = 0
  /\ isRunning = FALSE
  /\ isPaused = FALSE
  /\ particlesReleased = 0
  /\ stats = ConstructorStats
  /\ trajectory = <<>>
  /\ animFrameId = FALSE
  /\ rafQueue = <<>>
  /\ intervalElapsed = FALSE

ObserversInit ==
  /\ updateCount = 0
  /\ completeCount = 0
  /\ tickSteps = 0
  /\ tickUpdates = 0
  /\ lastOp = "new"
  /\ sinceReset = FALSE
  /\ userCalls = 0

\* no pure function has been applied on its own
NoValue == [none |-> TRUE]

KernelIdle == kernel = "none" /\ input = NoValue /\ output = NoValue

Init == ConfigInit /\ ConstructorState /\ ObserversInit /\ KernelIdle

\* ------------------------------------------------------------------- actions
Apply(S) ==
  /\ particles' = S.particles
  /\ time' = S.time
  /\ isRunning' = S.isRunning
  /\ isPaused' = S.isPaused
  /\ particlesReleased' = S.particlesReleased
  /\ stats' = S.stats
  /\ trajectory' = S.trajectory
  /\ animFrameId' = S.animFrameId
  /\ rafQueue' = S.rafQueue
  /\ intervalElapsed' = S.intervalElapsed

Count(c, k) == Min(c + k, MaxCount)

\* the onUpdate / onComplete calls and steps of a run of the tick body
Observe(r, base) ==
  /\ updateCount' = Count(IF base THEN 0 ELSE updateCount, r.updates)
  /\ completeCount' = Count(IF base THEN 0 ELSE completeCount, r.completes)
  /\ tickSteps' = r.steps
  /\ tickUpdates' = r.updates

\* the host calls sim.initialize() (it does so when the driver is not running)
Initialize ==
  /\ ~isRunning
  /\ \E draw \in InitDraws : Apply(initialize(Cur, draw).S)
  /\ updateCount' = 0 /\ completeCount' = 0
  /\ UNCHANGED <<tickSteps, tickUpdates>>
  /\ lastOp' = "initialize"
  /\ sinceReset' = FALSE
  /\ UNCHANGED <<cfgVars, fnVars, userCalls>>

\* sim.start(); at most MaxPending frame callbacks are kept pending
StartCall ==
  /\ Len(rafQueue) < MaxPending
  /\ \E r \in start(Cur) :
       /\ Apply(r.S)
       /\ IF r.threw
          THEN /\ updateCount' = 0 /\ completeCount' = 0
               /\ UNCHANGED <<tickSteps, tickUpdates>>
          ELSE Observe(r, Len(particles) = 0)
  /\ lastOp' = "start"
  /\ sinceReset' = FALSE
  /\ UNCHANGED <<cfgVars, fnVars>>

\* sim.pause()
PauseCall ==
  /\ (isPaused /\ isRunning) => Len(rafQueue) < MaxPending
  /\ \E r \in pause(Cur) :
       /\ Apply(r.S)
       /\ IF isPaused THEN Observe(r, FALSE)
          ELSE UNCHANGED <<updateCount, completeCount, tickSteps, tickUpdates>>
  /\ lastOp' = "pause"
  /\ UNCHANGED <<sinceReset, cfgVars, fnVars>>

\* sim.reset()
Reset ==
  /\ Apply(reset(Cur))
  /\ updateCount' = 0 /\ completeCount' = 0
  /\ UNCHANGED <<tickSteps, tickUpdates>>
  /\ lastOp' = "reset"
  /\ sinceReset' = TRUE
  /\ UNCHANGED <<cfgVars, fnVars, userCalls>>

\* the browser fires the oldest pending frame callback: () => this._tick()
Frame ==
  /\ rafQueue # <<>>
  /\ \E r \in tick([Cur EXCEPT !.rafQueue = Tail(rafQueue)]) :
       /\ Apply(r.S)
       /\ Observe(r, FALSE)
  /\ lastOp' = "tick"
  /\ UNCHANGED <<sinceReset, cfgVars, fnVars, userCalls>>

\* the clock reaches _lastFrameTime + targetInterval
TimePasses ==
  /\ ~intervalElapsed
  /\ intervalElapsed' = TRUE
  /\ UNCHANGED <<particles, time, isRunning, isPaused, particlesReleased, stats,
                 trajectory, animFrameId, rafQueue>>
  /\ UNCHANGED <<obsVars, cfgVars, fnVars, userCalls>>

Start == StartCall /\ UNCHANGED userCalls

Pause == PauseCall /\ UNCHANGED userCalls

Next == Initialize \/ Start \/ Pause \/ Reset \/ Frame \/ TimePasses

Spec == Init /\ [][Next]_vars

\* ------------------------------------------------------------------ LiveSpec
\* A run that the host starts and then leaves to the frame loop: it makes
\* at most MaxUserCalls start / pause calls, never resets, and resumes
\* whenever it has paused.  The browser keeps firing frame callbacks and
\* the clock keeps advancing.
MaxUserCalls == 3

InitLive ==
  /\ particleCount = 1
  /\ timeStep \in TimeSteps
  /\ maxTime \in {h * SecondsPerHour : h \in 1..MaxHours}
  /\ playbackSpeed \in 1..MaxSpeed
  /\ spillMode \in SpillModes
  /\ spillDuration \in (IF spillMode = "continuous" THEN 1..MaxHours
                        ELSE {DefaultSpillDuration})
  /\ oilType \in ConfigOilTypes
  /\ landMask = "null"
  /\ GridsAsConstructed
  /\ EnvironmentAsConstructed
  /\ ConstructorState /\ ObserversInit /\ KernelIdle

LiveStart ==
  /\ userCalls < MaxUserCalls
  /\ StartCall
  /\ userCalls' = userCalls + 1

LivePause ==
  /\ ~isPaused
  /\ userCalls < MaxUserCalls
  /\ PauseCall
  /\ userCalls' = userCalls + 1

LiveResume == isPaused /\ PauseCall /\ UNCHANGED userCalls

NextLive == LiveStart \/ LivePause \/ LiveResume \/ Frame \/ TimePasses

LiveSpec ==
  /\ InitLive /\ [][NextLive]_vars
  /\ WF_vars(Frame) /\ WF_vars(TimePasses) /\ WF_vars(LiveResume)

\* ------------------------------------------------------------------ StepSpec
\* The integration steps of a run taken one at a time, as _tick makes them:
\* initialize, then _step while time < maxTime.  The frame loop, pause and
\* reset are left out, so that every state between two steps is visible.
StepHours == 2

StepOilTypes == {"crude", "gasoline", "bunker"}

\* the time steps of the runs, and one longer than an hour
StepTimeSteps == TimeSteps \cup {5400}

InitStep ==
  /\ particleCount \in 0..MaxParticles
  /\ timeStep \in StepTimeSteps
  /\ maxTime = StepHours * SecondsPerHour
  /\ playbackSpeed = 1
  /\ spillMode \in SpillModes
  /\ spillDuration \in (IF spillMode = "continuous" THEN 1..StepHours
                        ELSE {DefaultSpillDuration})
  /\ oilType \in StepOilTypes
  /\ landMask \in StepLandMasks
  /\ useGridData \in BOOLEAN
  /\ windGrid \in WindGrids
  /\ EnvironmentAsConstructed
  /\ ConstructorState /\ ObserversInit /\ KernelIdle

\* one _step call of the loop of _tick; _tick runs only after start(), which
\* returns normally only when initialize() has built the particle array
Step ==
  /\ lastOp # "new"
  /\ Len(particles) = particleCount
  /\ time < maxTime
  /\ \E draw \in StepDraws(Cur) :
       /\ Apply(step(Cur, draw).S)
       /\ lastOp' = IF step(Cur, draw).threw THEN "threw" ELSE "step"
  /\ UNCHANGED <<updateCount, completeCount, tickSteps, tickUpdates, sinceReset>>
  /\ UNCHANGED <<cfgVars, fnVars, userCalls>>

NextStep == Initialize \/ Step

StepSpec == InitStep /\ [][NextStep]_vars

\* --------------------------------------------------------------- WeatherSpec
\* Long runs taken one step at a time, for the weathering curves: every oil
\* kind, calm and storm wind settings, cold to warm water, scalar and grid
\* mode, hourly and six-hourly steps.  No land mask is loaded and the random
\* displacement of every step is the zero draw, so the particles differ by
\* their release only.
WeatherHours == 112

WeatherTimeSteps == {3600, 21600}

\* wind speed settings (m/s) and water temperatures (degrees C)
WeatherWinds == {DefaultWindSpeed, 30}

WeatherTemps == {0, DefaultWaterTemp, 30}

\* spill durations (hours) of the continuous runs: the last particle is
\* released one step before the spill ends
WeatherDurations == {12, 64, 110}

InitWeather ==
  /\ particleCount \in 1..MaxParticles
  /\ timeStep \in WeatherTimeSteps
  /\ maxTime = WeatherHours * SecondsPerHour
  /\ playbackSpeed = 1
  /\ spillMode \in SpillModes
  /\ spillDuration \in (IF spillMode = "continuous" THEN WeatherDurations
                        ELSE {DefaultSpillDuration})
  /\ oilType \in OilKinds
  /\ landMask = "null"
  /\ useGridData = TRUE
  /\ windGrid \in WindGrids
  /\ windSpeed \in WeatherWinds
  /\ waterTemp \in WeatherTemps
  /\ ConstructorState /\ ObserversInit /\ KernelIdle

\* the draw of a step in which no random number moves a particle
StillDraw(S) == [i \in 1..Len(S.particles) |-> <<<<0, 0>>, <<0, 0>>>>]

\* one _step call of the loop of _tick
WeatherStep ==
  /\ lastOp # "new"
  /\ Len(particles) = particleCount
  /\ time < maxTime
  /\ Apply(step(Cur, StillDraw(Cur)).S)
  /\ lastOp' = IF step(Cur, StillDraw(Cur)).threw THEN "threw" ELSE "step"
  /\ UNCHANGED <<updateCount, completeCount, tickSteps, tickUpdates, sinceReset>>
  /\ UNCHANGED <<cfgVars, fnVars, userCalls>>

NextWeather == Initialize \/ WeatherStep

WeatherSpec == InitWeather /\ [][NextWeather]_vars

\* ----------------------------------------------------------------- FieldGrid
\* A FieldGrid is a record [lat, lon, timeHours, data]: the axes (timeHours
\* empty for a static field) and the flattened array of one variable.
\* Coordinates are in quarters of a degree, times in hours, and sample
\* returns the exact rational num / den that the interpolation formula
\* gives, the array indices it reads, and whether the result is NaN (an
\* index outside the array reads undefined).
CoordScale == 4

nLat(grid) == Len(grid.lat)

nLon(grid) == Len(grid.lon)

nTime(grid) == Len(grid.timeHours)

isTimeVarying(grid) == nTime(grid) > 0

\* the numerator and denominator of dLat / dLon: the axis span over
\* (n - 1) for n > 1, else one degree
AxisSpan(axis) ==
  IF Len(axis) > 1 THEN axis[Len(axis)] - axis[1] ELSE CoordScale

AxisCells(axis) == IF Len(axis) > 1 THEN Len(axis) - 1 ELSE 1

\* fi (or fj), clamped to [0, n - 1], as a numerator over AxisSpan(axis)
FracIndex(axis, x) ==
  Max(0, Min((x - axis[1]) * AxisCells(axis), (Len(axis) - 1) * AxisSpan(axis)))

\* i0 = Math.min(Math.floor(fi), n - 2)
LowIndex(axis, x) == Min(FracIndex(axis, x) \div AxisSpan(axis), Len(axis) - 2)

\* di = fi - i0, as a numerator over AxisSpan(axis)
FracPart(axis, x) == FracIndex(axis, x) - LowIndex(axis, x) * AxisSpan(axis)

\* variant: the array indexed column-major
GridIndexColumnMajor(grid, t, i, j) ==
  t * (nLat(grid) * nLon(grid)) + j * nLat(grid) + i

\* data[t * sliceSize + i * nLon + j], as a 0-based index
GridIndex(grid, t, i, j) == t * (nLat(grid) * nLon(grid)) + i * nLon(grid) + j

\* the four corner indices read at time index t
Corners(grid, t, lat, lng) ==
  Bind(LowIndex(grid.lat, lat), LAMBDA i0 :
    Bind(LowIndex(grid.lon, lng), LAMBDA j0 :
      [v00 |-> GridIndex(grid, t, i0, j0),
       v01 |-> GridIndex(grid, t, i0, j0 + 1),
       v10 |-> GridIndex(grid, t, i0 + 1, j0),
       v11 |-> GridIndex(grid, t, i0 + 1, j0 + 1)]))

CornerSet(c) == {c.v00, c.v01, c.v10, c.v11}

InArray(grid, idx) == idx >= 0 /\ idx < Len(grid.data)

\* variant: the weights of the v01 and v10 corners exchanged
BilinearWeightsExchanged(grid, t, lat, lng) ==
  Bind(Corners(grid, t, lat, lng), LAMBDA c :
    Bind(<<FracPart(grid.lat, lat), AxisSpan(grid.lat),
           FracPart(grid.lon, lng), AxisSpan(grid.lon)>>, LAMBDA w :
      (w[2] - w[1]) * (w[4] - w[3]) * grid.data[c.v00 + 1]
      + w[1] * (w[4] - w[3]) * grid.data[c.v01 + 1]
      + (w[2] - w[1]) * w[3] * grid.data[c.v10 + 1]
      + w[1] * w[3] * grid.data[c.v11 + 1]))

\* the bilinear combination at time index t, as a numerator over
\* AxisSpan(lat) * AxisSpan(lon); read only when the four indices are in
\* the array
Bilinear(grid, t, lat, lng) ==
  Bind(Corners(grid, t, lat, lng), LAMBDA c :
    Bind(<<FracPart(grid.lat, lat), AxisSpan(grid.lat),
           FracPart(grid.lon, lng), AxisSpan(grid.lon)>>, LAMBDA w :
      (w[2] - w[1]) * (w[4] - w[3]) * grid.data[c.v00 + 1]
      + (w[2] - w[1]) * w[3] * grid.data[c.v01 + 1]
      + w[1] * (w[4] - w[3]) * grid.data[c.v10 + 1]
      + w[1] * w[3] * grid.data[c.v11 + 1]))

\* ft of the time search as <<k, num, den>>: ft = k + num / den
TimeFrac(times, th) ==
  IF th <= times[1] THEN <<0, 0, 1>>
  ELSE IF th >= times[Len(times)] THEN <<Len(times) - 1, 0, 1>>
  ELSE IF \E k \in 1..(Len(times) - 1) : th >= times[k] /\ th <= times[k + 1]
  THEN LET k == CHOOSE k \in 1..(Len(times) - 1) :
                  /\ th >= times[k] /\ th <= times[k + 1]
                  /\ \A m \in 1..(k - 1) : ~(th >= times[m] /\ th <= times[m + 1])
       IN <<k - 1, th - times[k], times[k + 1] - times[k]>>
  ELSE <<0, 0, 1>>

\* t0 = Math.min(Math.floor(ft), nTime - 2)
LowTime(grid, th) ==
  LET ft == TimeFrac(grid.timeHours, th)
  IN Min(ft[1] + (ft[2] \div ft[3]), nTime(grid) - 2)

\* dt_frac = ft - t0 as <<num, den>>
TimePart(grid, th) ==
  LET ft == TimeFrac(grid.timeHours, th)
  IN <<(ft[1] - LowTime(grid, th)) * ft[3] + ft[2], ft[3]>>

NaNResult(reads) == [nan |-> TRUE, num |-> 0, den |-> 1, reads |-> reads]

\* the static branch of sample
sampleStatic(grid, lat, lng) ==
  LET reads == CornerSet(Corners(grid, 0, lat, lng))
  IN IF \A idx \in reads : InArray(grid, idx)
     THEN [nan |-> FALSE, num |-> Bilinear(grid, 0, lat, lng),
           den |-> AxisSpan(grid.lat) * AxisSpan(grid.lon), reads |-> reads]
     ELSE NaNResult(reads)

\* the time-varying branch of sample
sampleTimeVarying(grid, lat, lng, th) ==
  LET t0 == LowTime(grid, th)
      frac == TimePart(grid, th)
      reads == CornerSet(Corners(grid, t0, lat, lng))
                 \cup CornerSet(Corners(grid, t0 + 1, lat, lng))
  IN IF \A idx \in reads : InArray(grid, idx)
     THEN [nan |-> FALSE,
           num |-> Bilinear(grid, t0, lat, lng) * (frac[2] - frac[1])
                     + Bilinear(grid, t0 + 1, lat, lng) * frac[1],
           den |-> AxisSpan(grid.lat) * AxisSpan(grid.lon) * frac[2],
           reads |-> reads]
     ELSE NaNResult(reads)

\* FieldGrid.sample(varName, lat, lng, timeHours) for the variable held in
\* grid.data; an empty array is a variable the grid does not have
sample(grid, lat, lng, th) ==
  IF Len(grid.data) = 0 THEN [nan |-> FALSE, num |-> 0, den |-> 1, reads |-> {}]
  ELSE IF ~isTimeVarying(grid) THEN sampleStatic(grid, lat, lng)
  ELSE sampleTimeVarying(grid, lat, lng, th)

\* ---------------------------------------------------------------- KernelSpec
\* The pure functions of the engine applied on their own to inputs drawn
\* from bounded sets.
\* grids: uniform ascending latitude / longitude axes of one to three
\* points, no time axis or an ascending one of one to three times, and the
\* values data[k] = 10 * k or data[k] = (k * k) % 7
LatAxes == {<<4>>, <<0, 4>>, <<4, 8, 12>>}

LonAxes == {<<0>>, <<0, 4>>, <<0, 2, 4>>}

TimeAxes == {<<>>, <<1>>, <<0, 2>>, <<0, 1, 4>>}

DataPatterns == {"ramp", "residues"}

DataOf(pattern, n) ==
  [k \in 1..n |-> IF pattern = "ramp" THEN 10 * (k - 1) ELSE ((k - 1) * (k - 1)) % 7]

GridOf(lat, lon, times, pattern) ==
  [lat |-> lat, lon |-> lon, timeHours |-> times,
   data |-> DataOf(pattern, Max(Len(times), 1) * Len(lat) * Len(lon))]

Grids ==
  {GridOf(lat, lon, times, pattern) :
     lat \in LatAxes, lon \in LonAxes, times \in TimeAxes, pattern \in DataPatterns}

\* query points: on, between and outside the axes
QueryLats == 0..13

QueryLngs == -1..5

QueryHours == -1..5

InitKernel ==
  /\ particleCount = 0 /\ timeStep = 1200 /\ maxTime = 0 /\ playbackSpeed = 1
  /\ spillMode = "instant" /\ spillDuration = DefaultSpillDuration
  /\ oilType = "crude" /\ landMask = "null"
  /\ GridsAsConstructed
  /\ EnvironmentAsConstructed
  /\ ConstructorState /\ ObserversInit /\ KernelIdle

\* grid.sample(varName, lat, lng, timeHours)
SampleGrid ==
  /\ kernel = "none"
  /\ \E grid \in Grids, lat \in QueryLats, lng \in QueryLngs, th \in QueryHours :
       /\ input' = [grid |-> grid, lat |-> lat, lng |-> lng, th |-> th]
       /\ output' = sample(grid, lat, lng, th)
  /\ kernel' = "sample"
  /\ UNCHANGED <<cfgVars, simVars, obsVars, userCalls>>

\* ------------------------------------------------- the scalar drift of _step
\* degrees * DEG_TO_RAD, from thousandths of a degree to millionths of a radian
DegToRad(mdeg) == (mdeg * 1745) \div 100

\* wd + 180 modulo 360 in thousandths of a degree, wd = windDir + 5 sin(0.0003 t)
windGo(windDir, t) == (windDir * 1000 + 5 * Sin(t * 300) + 180000) % 360000

\* variant: the drift turned 15 degrees to the left of the wind
windDriftDeflectedLeft(speed, windDir, t) ==
  Bind(<<ScalarWindCenti(speed, t),
         DegToRad(windGo(windDir, t) - 15000)>>, LAMBDA w :
    [U |-> (w[1] * 3 * Sin(w[2])) \div 10, V |-> (w[1] * 3 * Cos(w[2])) \div 10])

\* windDriftU, windDriftV in micrometres per second:
\* ws * WIND_DRIFT_FACTOR * sin / cos (windGoRad + WIND_DEFLECTION)
windDrift(speed, windDir, t) ==
  Bind(<<ScalarWindCenti(speed, t),
         DegToRad(windGo(windDir, t) + 15000)>>, LAMBDA w :
    [U |-> (w[1] * 3 * Sin(w[2])) \div 10, V |-> (w[1] * 3 * Cos(w[2])) \div 10])

\* currentU, currentV in micrometres per second, the current speed given in
\* hundredths of m/s: cs = currentSpeed * (1 + 0.05 sin(0.0005 t)),
\* cd = currentDir + 3 cos(0.0004 t)
current(currentSpeed, currentDir, t) ==
  Bind(<<(currentSpeed * (1000000 + 50 * Sin(t * 500))) \div 100,
         DegToRad(currentDir * 1000 + 3 * Cos(t * 400))>>, LAMBDA c :
    [U |-> (c[1] * Sin(c[2])) \div 1000, V |-> (c[1] * Cos(c[2])) \div 1000])

\* globalTotalU, globalTotalV of the scalar mode
globalTotal(speed, windDir, currentSpeed, currentDir, t) ==
  Bind(<<windDrift(speed, windDir, t),
         current(currentSpeed, currentDir, t)>>, LAMBDA d :
    [totalU |-> d[1].U + d[2].U, totalV |-> d[1].V + d[2].V])

\* the scalar totals and diffusion coefficient (thousandths of m2/s) that the
\* precompute leaves: globalTotalU = globalTotalV = 0 and globalDiffCoeff =
\* 1.0 where it does not run (grid mode)
globalDrift(useGrid, speed, windDir, currentSpeed, currentDir, t) ==
  IF useGrid THEN [totalU |-> 0, totalV |-> 0, D |-> 1000]
  ELSE Bind(globalTotal(speed, windDir, currentSpeed, currentDir, t), LAMBDA g :
         [totalU |-> g.totalU, totalV |-> g.totalV,
          D |-> 1000 + 5 * ScalarWindCenti(speed, t)])

\* Math.atan2(y, x) in millionths of a radian, for the vectors along the
\* axes and the diagonals (the sampled winds of GridWinds)
Atan2(y, x) ==
  IF y = 0 THEN (IF x >= 0 THEN 0 ELSE 3141593)
  ELSE IF x = 0 THEN (IF y > 0 THEN 1570796 ELSE -1570796)
  ELSE IF x > 0 THEN (IF y > 0 THEN 785398 ELSE -785398)
  ELSE (IF y > 0 THEN 2356194 ELSE -2356194)

\* the drift vector of grid mode from the sampled wind <<u10, v10>> and
\* current <<uo, vo>> (hundredths of m/s)
gridDrift(wind, cur) ==
  Bind(<<ISqrt(wind[1] * wind[1] + wind[2] * wind[2]),
         Atan2(wind[1], wind[2]) + DegToRad(15000)>>, LAMBDA w :
    [totalU |-> (w[1] * 3 * Sin(w[2])) \div 10 + cur[1] * 10000,
     totalV |-> (w[1] * 3 * Cos(w[2])) \div 10 + cur[2] * 10000,
     D |-> 1000 + 5 * w[1]])

\* variant: a particle that no grid contains takes the totals of the scalar
\* wind and current settings
driftVectorScalarOutsideGrids(useGrid, windHit, currentHit, wind, cur, set, t) ==
  IF useGrid /\ (windHit \/ currentHit)
  THEN gridDrift(IF windHit THEN wind ELSE <<0, 0>>,
                 IF currentHit THEN cur ELSE <<0, 0>>)
  ELSE globalDrift(FALSE, set.windSpeed, set.windDir, set.currentSpeed,
                   set.currentDir, t)

\* totalU, totalV (micrometres per second) and diffCoeff of one particle in
\* the _step call at time t: windHit / currentHit say whether the wind /
\* current grid is loaded and contains the particle, wind and cur are what
\* the grids give at its position, set holds the scalar settings
driftVector(useGrid, windHit, currentHit, wind, cur, set, t) ==
  IF useGrid
  THEN gridDrift(IF windHit THEN wind ELSE <<0, 0>>,
                 IF currentHit THEN cur ELSE <<0, 0>>)
  ELSE globalDrift(useGrid, set.windSpeed, set.windDir, set.currentSpeed,
                   set.currentDir, t)

\* the length of the runs whose steps are evaluated, in hours
DriftHours == 48

\* wind directions (degrees, meteorological) and current speeds (hundredths
\* of m/s) set on the sliders; the current direction is the constructor's
WindDirs == {0, 90, 180, 270}
CurrentSpeeds == {0, 30}
DefaultCurrentDir == 90

\* the scalar precompute of the _step call made at time k * dt of a run
ScalarDrift ==
  /\ kernel = "none"
  /\ \E dt \in TimeSteps, k \in 0..((DriftHours * SecondsPerHour) \div 1200),
        wd \in WindDirs, cs \in CurrentSpeeds :
       /\ k * dt < DriftHours * SecondsPerHour
       /\ input' = [time |-> k * dt, windSpeed |-> DefaultWindSpeed,
                    windDir |-> wd, currentSpeed |-> cs]
       /\ output' = globalTotal(DefaultWindSpeed, wd, cs, DefaultCurrentDir, k * dt)
  /\ kernel' = "drift"
  /\ UNCHANGED <<cfgVars, simVars, obsVars, userCalls>>

\* ------------------------------------------- the release schedule of _step
\* The release block of _step run alone over a continuous release: it reads
\* and writes only time and _particlesReleased.
MaxReleased == 22
ReleaseCounts == 1..MaxReleased
ReleaseDurations == {1, 2, 11}

\* initialize() of a continuous run: time 0, nothing released
StartRelease ==
  /\ kernel = "none"
  /\ \E n \in ReleaseCounts, d \in ReleaseDurations, dt \in StepTimeSteps :
       input' = [particleCount |-> n, spillDuration |-> d, timeStep |-> dt]
  /\ output' = [time |-> 0, particlesReleased |-> 0]
  /\ kernel' = "release"
  /\ UNCHANGED <<cfgVars, simVars, obsVars, userCalls>>

\* the release block and the time increment of one _step call, until one
\* step after the end of the spill
StepRelease ==
  /\ kernel = "release"
  /\ output.time < input.spillDuration * SecondsPerHour + input.timeStep
  /\ output' = [time |-> output.time + input.timeStep,
                particlesReleased |->
                  releasedAfter(output.time, output.particlesReleased,
                                input.timeStep, input.spillDuration,
                                input.particleCount)]
  /\ UNCHANGED <<kernel, input>>
  /\ UNCHANGED <<cfgVars, simVars, obsVars, userCalls>>

\* sampled winds and currents (hundredths of m/s)
GridWinds == {<<u, v>> : u \in {-500, 0, 500}, v \in {-500, 0, 500}}

GridCurrents == {<<0, 0>>, <<30, 0>>}

\* the drift vector of one particle in a _step call at time t
ParticleDrift ==
  /\ kernel = "none"
  /\ \E useGrid \in BOOLEAN, windHit \in BOOLEAN, currentHit \in BOOLEAN,
        wind \in GridWinds, cur \in GridCurrents,
        wd \in WindDirs, cs \in CurrentSpeeds, t \in TimeSteps :
       /\ input' = [useGrid |-> useGrid, windHit |-> windHit,
                    currentHit |-> currentHit, wind |-> wind, cur |-> cur,
                    time |-> t, windSpeed |-> DefaultWindSpeed,
                    windDir |-> wd, currentSpeed |-> cs]
       /\ output' = driftVector(useGrid, windHit, currentHit, wind, cur,
                       [windSpeed |-> DefaultWindSpeed, windDir |-> wd,
                        currentSpeed |-> cs, currentDir |-> DefaultCurrentDir],
                       t)
  /\ kernel' = "driftVector"
  /\ UNCHANGED <<cfgVars, simVars, obsVars, userCalls>>

NextKernel ==
  SampleGrid \/ ScalarDrift \/ StartRelease \/ StepRelease \/ ParticleDrift

KernelSpec == InitKernel /\ [][NextKernel]_vars

\* =================================================================== claims
\* a configuration the specification calls valid
ValidConfig == particleCount >= 1 /\ maxTime > 0 /\ oilType \in OilKinds

\* C1: every tick that executes at least one integration step emits exactly
\* one on_update after its last step, the tick in which time reaches
\* max_time included.
C1_UpdateAfterSteps == (ValidConfig /\ tickSteps >= 1) => tickUpdates = 1

\* C2: on_complete is invoked exactly once per run, whatever start, pause,
\* resume and tick calls follow the moment the horizon is reached.
C2_CompleteOnce == ValidConfig => completeCount <= 1

\* C3: once time >= max_time, with at least one particle, no tick, start or
\* pause call changes time, the trajectory or any particle.
C3_NoStepAfterHorizon ==
  [][(time >= maxTime /\ Len(particles) >= 1
        /\ lastOp' \in {"tick", "start", "pause"})
     => UNCHANGED <<time, trajectory, particles>>]_vars

C3_Witness ==
  /\ maxTime > 0 /\ time >= maxTime /\ Len(particles) >= 1
  /\ completeCount >= 2 /\ lastOp = "tick"

\* C4: after reset, from any state, the driver is idle: not running, not
\* paused, no particles, time 0, empty trajectory, nothing released and the
\* initial stats; a second reset changes nothing.
C4_ResetIdle ==
  lastOp = "reset" =>
    /\ ~isRunning /\ ~isPaused
    /\ particles = <<>> /\ time = 0 /\ trajectory = <<>>
    /\ particlesReleased = 0
    /\ stats.remaining = 1000000 /\ stats.area = 0 /\ stats.beached = 0
    /\ stats.maxDrift = 0
    /\ stats.centerLat = spillLat * 1000 /\ stats.centerLng = spillLng * 1000
    /\ reset(Cur) = Cur

\* reset was called while a run was under way and left a frame callback pending
C4_Witness == lastOp = "reset" /\ rafQueue # <<>> /\ intervalElapsed

\* C5: pause toggles between running and paused without touching the run;
\* while paused a tick executes no step and emits no on_update, and resume
\* continues from the same time with the same particles.
C5_PauseResume ==
  [][/\ Pause => /\ isPaused' = ~isPaused
                 /\ isRunning' = isRunning
                 /\ UNCHANGED <<time, particles, trajectory, stats, particlesReleased>>
     /\ (isPaused /\ Frame)
          => /\ UNCHANGED <<time, particles, trajectory, stats, particlesReleased>>
             /\ tickSteps' = 0 /\ tickUpdates' = 0
             /\ isPaused']_vars

\* a frame callback fired while a started run was paused before its horizon
C5_Witness ==
  /\ isRunning /\ isPaused /\ lastOp = "tick"
  /\ time > 0 /\ time < maxTime /\ Len(particles) >= 1

\* C6: a tick callback scheduled before reset that fires after it, with no
\* start in between, changes nothing: no step, no stats update, no on_update
\* or on_complete, and no further tick scheduled.
C6_StaleTickInert ==
  [][(sinceReset /\ Frame)
     => /\ UNCHANGED <<particles, time, isRunning, isPaused, particlesReleased,
                       stats, trajectory, animFrameId, intervalElapsed>>
        /\ rafQueue' = Tail(rafQueue)
        /\ tickSteps' = 0 /\ tickUpdates' = 0
        /\ UNCHANGED <<updateCount, completeCount>>]_vars

\* a stale callback fired after the reset of a valid run
C6_Witness == sinceReset /\ lastOp = "tick" /\ ValidConfig

\* C7: a started run with a valid configuration terminates: if frames keep
\* firing and the driver is not left paused or reset, eventually
\* time >= max_time, on_complete has fired, the driver is not running and
\* no tick is scheduled.
C7_RunTerminates ==
  (isRunning /\ ValidConfig)
    ~> (time >= maxTime /\ ~isRunning /\ completeCount >= 1 /\ rafQueue = <<>>)

\* a run paused and resumed on its way that reached the horizon in a tick
\* that also stepped
C7_Witness ==
  /\ ValidConfig /\ time >= maxTime /\ ~isRunning /\ completeCount = 1
  /\ rafQueue = <<>> /\ userCalls = MaxUserCalls /\ tickSteps >= 1

\* C8: with an invalid configuration start refuses to start: the driver is
\* never running, no step is executed, neither on_update nor on_complete is
\* invoked.
C8_InvalidRefused ==
  ~ValidConfig =>
    /\ ~isRunning
    /\ time = 0 /\ tickSteps = 0
    /\ updateCount = 0 /\ completeCount = 0

\* C9: in every reachable state 0 <= time <= max_time, for every positive
\* time_step and max_time.
C9_TimeWithinHorizon == ValidConfig => (0 <= time /\ time <= maxTime)

\* C10: continuous mode with spill_duration = max_time / 3600: when the
\* horizon is reached and on_complete has fired, _particles_released = N.
C10_AllReleasedAtHorizon ==
  (/\ spillMode = "continuous"
   /\ spillDuration * SecondsPerHour = maxTime
   /\ time >= maxTime /\ completeCount >= 1)
  => particlesReleased = particleCount

C10_Witness ==
  /\ spillMode = "continuous"
  /\ spillDuration * SecondsPerHour = maxTime
  /\ time >= maxTime /\ completeCount >= 1
  /\ particleCount >= 2 /\ timeStep = 2400
  /\ particlesReleased = particleCount

\* C11: with no wind, current or temperature grid loaded, a step made with
\* use_grid_data = true gives, for the same random draws, the same particles,
\* time, trajectory and stats as the step made with use_grid_data = false,
\* from every state of a run.
C11_GridSwitchWithoutGrids ==
  (windGrid = "null" /\ lastOp # "new") =>
    \A draw \in StepDraws(Cur) :
      stepUsing(UseGrid(TRUE), Cur, draw) = stepUsing(UseGrid(FALSE), Cur, draw)

\* a run with the switch on and no grid whose particles have weathered
C11_Witness ==
  /\ windGrid = "null" /\ useGridData /\ lastOp = "step" /\ time < maxTime
  /\ \E i \in 1..Len(particles) : particles[i].active /\ particles[i].evaporated > 0

\* the particles a step has just grounded
Grounded(i) == ~particles[i].beached /\ particles'[i].beached

\* a beached particle keeps its position in every later step of the run
BeachedStay ==
  \A i \in 1..Len(particles) :
    particles[i].beached =>
      /\ particles'[i].beached
      /\ particles'[i].lat = particles[i].lat
      /\ particles'[i].lng = particles[i].lng

PreDisplacement(S, draw, i) ==
  IF i > S.particlesReleased /\ i <= ReleaseTarget(S)
  THEN <<spillLat + draw[i][1][1], spillLng + draw[i][1][2]>>
  ELSE <<S.particles[i].lat, S.particles[i].lng>>

C13_AllGroundOnLand ==
  (landMask = "land" /\ HasOilProps(oilType) /\ lastOp = "step") =>
    /\ \A i \in 1..Len(particles) : ~particles[i].active
    /\ \A i \in 1..particlesReleased : particles[i].beached
    /\ spillMode = "instant" =>
         /\ Len(particles) = particleCount
         /\ \A i \in 1..particleCount : particles[i].beached

\* a continuous release on land: two particles released in different steps,
\* both beached
C13_Witness ==
  /\ landMask = "land" /\ HasOilProps(oilType) /\ lastOp = "step"
  /\ spillMode = "continuous" /\ particlesReleased = 2
  /\ particles[1].beached /\ particles[2].beached
  /\ particles[1].evaporated < particles[2].evaporated

\* the query of the latest sample call is node (i, j) of its grid (1-based)
AtNode(i, j) ==
  /\ input.lat = input.grid.lat[i]
  /\ input.lng = input.grid.lon[j]

\* the latest sample call returned the number v
Returned(v) == ~output.nan /\ output.num = v * output.den

\* C14: on a grid with uniform axes and at least two points on each axis
\* (the time axis included when there is one), sample at node (i, j) returns
\* data[i*nLon + j] for a static grid and, at time_hours[k],
\* data[k*nLat*nLon + i*nLon + j] for a time-varying one, for every node and
\* every time index.
C14_SampleAtNode ==
  (/\ kernel = "sample"
   /\ nLat(input.grid) >= 2 /\ nLon(input.grid) >= 2 /\ nTime(input.grid) # 1)
  => \A i \in 1..nLat(input.grid), j \in 1..nLon(input.grid) :
       AtNode(i, j) =>
         IF ~isTimeVarying(input.grid)
         THEN Returned(input.grid.data[(i - 1) * nLon(input.grid) + (j - 1) + 1])
         ELSE \A k \in 1..nTime(input.grid) :
                input.th = input.grid.timeHours[k] =>
                  Returned(input.grid.data[
                    (k - 1) * nLat(input.grid) * nLon(input.grid)
                      + (i - 1) * nLon(input.grid) + (j - 1) + 1])

\* a sample at an inner node and the middle time of a 3 x 3 x 3 grid
C14_Witness ==
  /\ kernel = "sample"
  /\ input.grid = GridOf(<<4, 8, 12>>, <<0, 2, 4>>, <<0, 1, 4>>, "ramp")
  /\ input.lat = 8 /\ input.lng = 2 /\ input.th = 1
  /\ Returned(130)

\* sample('u10', 0.25, 0.75) on the static grid lat = [0, 1], lon = [0, 1],
\* u10 = [0, 10, 20, 30]
GoldenQuery ==
  /\ kernel = "sample"
  /\ input.grid = GridOf(<<0, 4>>, <<0, 4>>, <<>>, "ramp")
  /\ input.lat = 1 /\ input.lng = 3

\* C15 as stated: the sample returns 13.75.
C15_GoldenIs1375 == GoldenQuery => (~output.nan /\ 100 * output.num = 1375 * output.den)

\* C15 amended: the sample returns 12.5.
C15_GoldenIs125 == GoldenQuery => (~output.nan /\ 10 * output.num = 125 * output.den)

\* the golden query was made and answered with sixteenths of the corner sum
C15_Witness == GoldenQuery /\ output.den = 16 /\ output.num = 200 /\ input.th = 0

\* the sample times of the trajectory increase strictly
SampleTimesIncrease ==
  \A k \in 1..(Len(trajectory) - 1) : trajectory[k].time < trajectory[k + 1].time

\* some particle has been active since the first step of the run
ActiveSinceStart ==
  \E i \in 1..Len(particles) : particles[i].active /\ particles[i].age = time

\* C16 as stated: after any sequence of steps the sample times increase
\* strictly and there are floor(time / 3600) samples.
C16_OneSamplePerHour ==
  lastOp # "new" => (SampleTimesIncrease /\ Len(trajectory) = time \div SecondsPerHour)

\* the steps made so far, or the whole hours elapsed if that is fewer
SampleSlots == Min(time \div SecondsPerHour, time \div timeStep)

\* C16 amended: the sample times increase strictly, every sample time t is
\* the end of a step with t mod 3600 < time_step, and the number of samples is
\* at most the whole hours elapsed (the steps made, when a step is longer
\* than an hour), with equality when a particle has been active since the
\* first step.
C16_SamplesOfActiveHours ==
  lastOp # "new" =>
    /\ SampleTimesIncrease
    /\ \A k \in 1..Len(trajectory) :
         /\ trajectory[k].time % SecondsPerHour < timeStep
         /\ trajectory[k].time % timeStep = 0
         /\ 0 < trajectory[k].time /\ trajectory[k].time <= time
    /\ Len(trajectory) <= SampleSlots
    /\ ActiveSinceStart => Len(trajectory) = SampleSlots

\* two hours of 2400 s steps with an active particle: samples at 4800 s and
\* at 7200 s
C16_Witness ==
  /\ lastOp = "step" /\ timeStep = 2400 /\ time = 2 * SecondsPerHour
  /\ ActiveSinceStart
  /\ Len(trajectory) = 2 /\ trajectory[1].time = 4800 /\ trajectory[2].time = 7200

\* a step of the scalar mode with wind 5 m/s from 180 degrees and no current
SouthWindNoCurrent ==
  /\ kernel = "drift"
  /\ input.windSpeed = 5 /\ input.windDir = 180 /\ input.currentSpeed = 0

\* C17 as stated: at every step of the 48 h run the advective velocity points
\* north with a westward component, totalV > 0 and totalU < 0.
C17_DriftNorthNorthWest ==
  SouthWindNoCurrent => (output.totalV > 0 /\ output.totalU < 0)

\* C17 amended: at every step of the 48 h run the advective velocity points
\* north with an eastward component, totalV > 0 and totalU > 0, between 10
\* and 20 degrees east of north.
C17_DriftNorthNorthEast ==
  SouthWindNoCurrent =>
    /\ output.totalV > 0 /\ output.totalU > 0
    /\ 1000 * output.totalU > 170 * output.totalV
    /\ 1000 * output.totalU < 370 * output.totalV

\* the last 1200 s step of the 48 h run
C17_Witness ==
  /\ SouthWindNoCurrent
  /\ input.time = DriftHours * SecondsPerHour - 1200
  /\ output.totalU > 0 /\ output.totalV > output.totalU

\* C18: in a continuous release with spill_duration > 0, after every step,
\* with t the time after the step,
\* _particles_released = min(floor(t * N / (spill_duration * 3600)), N).
C18_LinearRelease ==
  kernel = "release" =>
    output.particlesReleased =
      Min((output.time * input.particleCount)
            \div (input.spillDuration * SecondsPerHour),
          input.particleCount)

\* the spill of a continuous run is over
SpillOver ==
  spillMode = "continuous" /\ spillDuration > 0
    /\ time >= spillDuration * SecondsPerHour

\* one frame of the run advances the time by at least the spill duration
FrameSpansSpill == playbackSpeed * timeStep >= spillDuration * SecondsPerHour

\* C19 as stated: a continuous run whose frames jump past the end of the
\* spill (large playback_speed x time_step) is left, once the spill is over,
\* with an unreleased tail: _particles_released < N.
C19_TailLostAfterJump ==
  (SpillOver /\ FrameSpansSpill /\ particleCount >= 1)
    => particlesReleased < particleCount

\* C19 amended: in a continuous run with spill_duration > 0 no state has
\* time >= spill_duration * 3600 and _particles_released < N, whatever
\* playback_speed x time_step: no tail is left unreleased.
C19_NoTailLeft == SpillOver => particlesReleased = particleCount

\* a single frame of two 2400 s steps has jumped over a one-hour spill and
\* both particles are released
C19_Witness ==
  /\ SpillOver /\ FrameSpansSpill /\ spillDuration = 1
  /\ lastOp = "tick" /\ tickSteps = 2 /\ time = 2 * timeStep
  /\ particleCount = 2 /\ particlesReleased = 2

\* a particle switched off by the 5% mass threshold of the particle loop
DeactivatedByMass(p) ==
  ~p.active /\ ~p.beached /\ 1000000 - p.evaporated - p.dispersed < 50000

\* a particle as initialize leaves it in continuous mode, not yet released
Unreleased(p) ==
  ~p.active /\ ~p.beached /\ p.age = 0 /\ p.lat = spillLat /\ p.lng = spillLng

CountOf(Class(_)) == Cardinality({i \in 1..Len(particles) : Class(particles[i])})

Terminal(p) == p.beached \/ DeactivatedByMass(p)

C22_FractionsWithinWhole ==
  \A i \in 1..Len(particles) :
    particles[i].evaporated + particles[i].dispersed <= 1000000

\* C23: at all times every particle has 0 <= evaporated <= volatileFrac of
\* the oil kind, 0 <= dispersed <= 0.3 and 0 <= emulsionWater <= 0.7, for
\* every configured water temperature and wind speed
C23_WeatheringBounds ==
  \A i \in 1..Len(particles) :
    /\ 0 <= particles[i].evaporated
    /\ particles[i].evaporated <= oilProps(oilType).volatileFrac
    /\ 0 <= particles[i].dispersed /\ particles[i].dispersed <= 300000
    /\ 0 <= particles[i].emulsionWater /\ particles[i].emulsionWater <= 700000

\* a step has left a particle with all three fractions at their caps
C23_Witness ==
  /\ lastOp = "step"
  /\ \E i \in 1..Len(particles) :
       /\ particles[i].evaporated = oilProps(oilType).volatileFrac
       /\ particles[i].dispersed = 300000
       /\ particles[i].emulsionWater = 700000

\* C25: natural dispersion is triggered only by wind above 5 m/s: in every
\* step whose representative wind speed is <= 5 m/s, the fixed 5.0 m/s of
\* grid mode included, every particle the step weathers is left with
\* dispersed = 0
C25_NoDispersionUpToFive ==
  [][(lastOp' = "step" /\ time' # time
        /\ RepWindCenti(UseGrid(useGridData), time) <= 500)
       => \A i \in 1..Len(particles') :
            particles'[i].age # particles[i].age
              => particles'[i].dispersed = 0]_vars

\* C30: weathering only progresses: a particle that is active after two
\* consecutive steps has, after the second, evaporated and dispersed
\* fractions no smaller and a residual mass no larger than after the first,
\* in scalar mode as well as in grid mode
C30_WeatheringProgresses ==
  [][(lastOp = "step" /\ lastOp' = "step")
       => \A i \in 1..Len(particles) :
            (particles[i].active /\ particles[i].age > 0 /\ particles'[i].active)
              => /\ particles'[i].evaporated >= particles[i].evaporated
                 /\ particles'[i].dispersed >= particles[i].dispersed
                 /\ particles'[i].mass <= particles[i].mass]_vars

\* C26: after initialize and after every step all active particles carry the
\* same evaporated, dispersed, emulsionWater and viscosity, in both release
\* modes and for particles released in that step
C26_ActiveShareWeathering ==
  lastOp \in {"initialize", "step"}
    => \A i, j \in 1..Len(particles) :
         (particles[i].active /\ particles[j].active)
           => /\ particles[i].evaporated = particles[j].evaporated
              /\ particles[i].dispersed = particles[j].dispersed
              /\ particles[i].emulsionWater = particles[j].emulsionWater
              /\ particles[i].viscosity = particles[j].viscosity

\* after a step two particles of different ages are active, weathered
C26_Witness ==
  /\ lastOp = "step"
  /\ \E i, j \in 1..Len(particles) :
       /\ particles[i].active /\ particles[j].active
       /\ particles[i].age > particles[j].age + timeStep
       /\ particles[j].evaporated > 0 /\ particles[j].dispersed > 0
       /\ particles[j].emulsionWater > 0
       /\ particles[j].viscosity > oilProps(oilType).viscosity

\* the scalar totalU, totalV and D that the wind and current settings of the
\* input give at its time
ScalarField ==
  globalDrift(FALSE, input.windSpeed, input.windDir, input.currentSpeed,
              DefaultCurrentDir, input.time)

\* grid mode, and neither the wind nor the current grid contains the particle
OutsideAllGrids ==
  kernel = "driftVector" /\ input.useGrid /\ ~input.windHit /\ ~input.currentHit

\* C24: in grid mode a particle contained in none of the wind and current
\* grids is advected with the scalar-field totalU, totalV and D, not with
\* zero drift
C24_ScalarFieldOutsideGrids ==
  OutsideAllGrids => output = ScalarField

\* C24 as the code has it: such a particle gets totalU = totalV = 0 and
\* D = 1.0, whatever the scalar wind and current settings are
C24_ZeroDriftOutsideGrids ==
  OutsideAllGrids => output = [totalU |-> 0, totalV |-> 0, D |-> 1000]

\* a particle outside all grids, drawn with settings whose scalar field would
\* move it
C24_Witness ==
  /\ OutsideAllGrids
  /\ ScalarField.totalU # 0 /\ ScalarField.totalV # 0
  /\ input.wind # <<0, 0>> /\ input.cur # <<0, 0>>

\* the particle is at a position that the land mask contains and marks as
\* land (lsm > 0.5)
OnLand(p) == Contains(landMask, p.lat, p.lng) /\ IsLand(landMask, p.lat, p.lng)

\* C27: after every step every active particle is in water: no active
\* particle is at a position inside the land-mask domain where lsm > 0.5,
\* wherever it was before the step
C27_ActiveInWater ==
  lastOp = "step"
    => \A i \in 1..Len(particles) : particles[i].active => ~OnLand(particles[i])

\* after a step one particle is active next to the coast and another one
\* has grounded there
C27_Witness ==
  /\ lastOp = "step" /\ landMask = "coast"
  /\ \E i, j \in 1..Len(particles) :
       /\ particles[i].active
       /\ particles[i].lat = spillLat + CoastOffset - 1
       /\ particles[j].beached

\* C28: at every moment at most one tick callback is pending (requested and
\* not yet fired), under every interleaving of start, pause, resume and
\* reset with the frame callbacks
C28_OneTickPending == Len(rafQueue) <= 1

\* the smallest and the largest value stored in the array of a grid
MinStored(grid) ==
  CHOOSE v \in {grid.data[k] : k \in DOMAIN grid.data} :
    \A k \in DOMAIN grid.data : v <= grid.data[k]

MaxStored(grid) ==
  CHOOSE v \in {grid.data[k] : k \in DOMAIN grid.data} :
    \A k \in DOMAIN grid.data : v >= grid.data[k]

\* C29: FieldGrid.sample never reads outside the variable array, also for a
\* grid with a single latitude row, longitude column or time step, and its
\* result lies between the smallest and the largest stored value
C29_ReadsInsideArray ==
  (kernel = "sample" /\ Len(input.grid.data) > 0)
    => /\ \A idx \in output.reads : InArray(input.grid, idx)
       /\ ~output.nan
       /\ MinStored(input.grid) * output.den <= output.num
       /\ output.num <= MaxStored(input.grid) * output.den

====
